---- MODULE Spec2Model ----
(***************************************************************************)
(* A model of library/locker.py: the FileLock engine (lock / unlock on     *)
(* top of msvcrt.locking and win32file.LockFileEx / UnlockFileEx) and the  *)
(* two singleton restrictions (the `singleton` decorator and the           *)
(* MetaSingleton metaclass).                                               *)
(*                                                                         *)
(* The operating system's lock table of ONE file is part of the state.     *)
(* Several independent handles are open on that file; every handle has     *)
(* one caller, which issues lock(), unlock() and seek() calls on it.       *)
(* Handles are open and seekable (tell() and seek() do not fail), which is *)
(* the precondition of lock() and unlock().                                *)
(***************************************************************************)
EXTENDS Integers, Sequences, FiniteSets, Bags, TLC

(* ------------------------------ bounds -------------------------------- *)
\* largest cursor position a caller seeks to
MaxPos == 1
\* a caller stops issuing lock() once its handle owns this many locks
MaxHeld == 2

\* the independent handles open on the file, each with its own caller
Handles == {"A", "B"}
Positions == 0..MaxPos
\* number of threads that construct singleton-restricted classes
NumThreads == 2

\* a process stops constructing lock engines once it has built this many
MaxEngines == 4

\* longest mode string a handle is opened with
MaxModeLen == 3

Threads == 1..NumThreads
\* the argument values a constructor is called with
Args == {1, 2}

(* ------------------------ platform constants -------------------------- *)
\* msvcrt locking modes (from msvcrt import ...)
LK_UNLCK == 0
LK_LOCK == 1
LK_NBLCK == 2
LK_RLCK == 3
LK_NBRLCK == 4
\* win32con flags of LockFileEx; EXCLUSIVE_LOCK is the kernel's second bit
LOCKFILE_FAIL_IMMEDIATELY == 1
LOCKFILE_EXCLUSIVE_LOCK == 2
\* winerror codes
ERROR_LOCK_VIOLATION == 33
ERROR_NOT_LOCKED == 158

(* ------------------------------ LOCK ---------------------------------- *)
EX == 1
SH == 2
NB == 4
UN == LK_UNLCK

\* every value a caller may pass as flags: any combination of the three bits
FlagValues == 0..(EX + SH + NB)

\* Python's `x & bit` as a truth value, for a single-bit mask
HasBit(x, bit) == (x \div bit) % 2 = 1

\* sys.version_info.major: the package requires Python >= 3.7
version_major == 3

lock_length_nothing == IF version_major = 2 THEN -1 ELSE 0

\* FileLock.__init__: self.lock_length
lock_length == IF version_major = 2 THEN -1 ELSE 2147483647

\* the third and fourth argument of LockFileEx / the second and third of
\* UnlockFileEx: nNumberOfBytesToLockLow, nNumberOfBytesToLockHigh
ex_bytes_low == 0
ex_bytes_high == -65536

VARIABLES
    table,      \* the file's lock table: a bag of granted byte-range locks
    pos,        \* pos[h]: the cursor of handle h
    pc,         \* pc[h]: "idle", "pending" (inside a call that waits), "returned"
    call,       \* call[h]: the call in progress or the last one made on h
    INSTANCES,  \* the mapping INSTANCES: class -> instance (None: no entry)
    attr,       \* attr[c]: the class attribute c._instance (None: not set)
    created,    \* every instance a constructor has built so far
    thr,        \* thr[t]: where thread t is in a construction, and its locals
    handle_mode, \* handle.mode of the handle given to get_flags: a string
    got         \* what get_flags(handle) gave for it

lockVars == <<table, pos, pc, call>>
singletonVars == <<INSTANCES, attr, created, thr>>
resolverVars == <<handle_mode, got>>
vars == <<table, pos, pc, call, INSTANCES, attr, created, thr, handle_mode, got>>

(* ---------------------- the kernel's lock table ----------------------- *)
\* A granted lock: owner handle, byte range (offset, length as two words),
\* exclusive or shared, and the primitive that took it.
Region(off, low, high) == [off |-> off, low |-> low, high |-> high]

\* the range of r ends after byte x (offsets are below 2^31; a non-zero high
\* word puts the end above every such offset)
EndsAfter(r, x) == r.high # 0 \/ r.low > x - r.off

Overlaps(r1, r2) == EndsAfter(r1, r2.off) /\ EndsAfter(r2, r1.off)

Entry(h, r, excl, via) == [h |-> h, r |-> r, excl |-> excl, via |-> via]

Entries(tbl) == BagToSet(tbl)

HeldBy(tbl, h) == {e \in Entries(tbl) : e.h = h}

\* how many locks handle h owns (a range locked twice counts twice)
CountHeld(tbl, h) == BagCardinality([e \in HeldBy(tbl, h) |-> tbl[e]])

\* LockFile / LockFileEx: an exclusive lock cannot overlap any locked range;
\* a shared lock can overlap shared locks, and an exclusive lock of the same
\* handle.
Grantable(tbl, h, r, excl) ==
    \A e \in Entries(tbl) :
        Overlaps(e.r, r) => (~excl /\ (~e.excl \/ e.h = h))

Grant(tbl, h, r, excl, via) == tbl (+) SetToBag({Entry(h, r, excl, via)})

\* UnlockFile / UnlockFileEx: the range must be exactly one the handle has
\* locked; of an exclusive and a shared lock on the same range the exclusive
\* one is released first.
Matching(tbl, h, r) == {e \in HeldBy(tbl, h) : e.r = r}

Release(tbl, h, r) ==
    LET m == Matching(tbl, h, r)
        e == IF \E x \in m : x.excl THEN CHOOSE x \in m : x.excl
             ELSE CHOOSE x \in m : TRUE
    IN tbl (-) SetToBag({e})

(* -------------------- the operating system's primitives --------------- *)
\* What the environment does to one primitive call: 0 lets it run; any other
\* value makes it fail with that unrelated system error (6 is
\* ERROR_INVALID_HANDLE, which the C runtime reports as EBADF).
Faults == {0, 6}

\* win32file.LockFileEx(hFile, dwFlags, nbytesLow, nbytesHigh, overlapped):
\* the range starts at the OVERLAPPED offset, which OVERLAPPED() leaves 0.
\* The kernel reads two bits of dwFlags and ignores the others.  Without
\* LOCKFILE_FAIL_IMMEDIATELY the call waits until the lock can be granted.
LockFileEx(tbl, h, dwFlags, low, high, fault) ==
    LET r == Region(0, low, high)
        excl == HasBit(dwFlags, LOCKFILE_EXCLUSIVE_LOCK)
    IN  IF fault # 0
        THEN [winerror |-> fault, wait |-> FALSE, table |-> tbl]
        ELSE IF Grantable(tbl, h, r, excl)
        THEN [winerror |-> 0, wait |-> FALSE,
              table |-> Grant(tbl, h, r, excl, "LockFileEx")]
        ELSE IF HasBit(dwFlags, LOCKFILE_FAIL_IMMEDIATELY)
        THEN [winerror |-> ERROR_LOCK_VIOLATION, wait |-> FALSE, table |-> tbl]
        ELSE [winerror |-> 0, wait |-> TRUE, table |-> tbl]

\* win32file.UnlockFileEx(hFile, nbytesLow, nbytesHigh, overlapped)
UnlockFileEx(tbl, h, low, high, fault) ==
    LET r == Region(0, low, high)
    IN  IF fault # 0
        THEN [winerror |-> fault, table |-> tbl]
        ELSE IF Matching(tbl, h, r) # {}
        THEN [winerror |-> 0, table |-> Release(tbl, h, r)]
        ELSE [winerror |-> ERROR_NOT_LOCKED, table |-> tbl]

\* msvcrt.locking(fd, mode, nbytes), one attempt: LockFile (always exclusive,
\* never waiting) or UnlockFile on nbytes bytes from the cursor.  A refused
\* lock and a range that is not locked are both reported as EACCES,
\* "Permission denied".  LK_LOCK and LK_RLCK sleep and try again a fixed
\* number of times (strerror "retry" here) and report "Resource deadlock
\* avoided" after the last attempt; `last` tells whether this attempt is it.
locking(tbl, h, cur, mode, nbytes, last, fault) ==
    LET r == Region(cur, nbytes, 0)
    IN  IF fault # 0
        THEN [strerror |-> "Bad file descriptor", table |-> tbl]
        ELSE IF mode = LK_UNLCK
        THEN IF Matching(tbl, h, r) # {}
             THEN [strerror |-> "", table |-> Release(tbl, h, r)]
             ELSE [strerror |-> "Permission denied", table |-> tbl]
        ELSE IF Grantable(tbl, h, r, TRUE)
        THEN [strerror |-> "", table |-> Grant(tbl, h, r, TRUE, "locking")]
        ELSE IF mode \in {LK_LOCK, LK_RLCK}
        THEN IF ~last
             THEN [strerror |-> "retry", table |-> tbl]
             ELSE [strerror |-> "Resource deadlock avoided", table |-> tbl]
        ELSE [strerror |-> "Permission denied", table |-> tbl]

(* --------------------------- error objects ---------------------------- *)
NoError == [type |-> "none", winerror |-> 0, strerror |-> "", handle |-> "none"]

\* the text Windows gives for an error code
FormatMessage(winerror) ==
    IF winerror = ERROR_LOCK_VIOLATION
    THEN "The process cannot access the file because another process has locked a portion of the file."
    ELSE IF winerror = ERROR_NOT_LOCKED
    THEN "The segment is already unlocked."
    ELSE "The handle is invalid."

\* pywintypes.error raised by LockFileEx / UnlockFileEx
pywin_error(winerror) ==
    [type |-> "pywin_error", winerror |-> winerror,
     strerror |-> FormatMessage(winerror), handle |-> "none"]

\* IOError (OSError) raised by msvcrt.locking
IOError(strerror) ==
    [type |-> "IOError", winerror |-> 0, strerror |-> strerror, handle |-> "none"]

\* LockException(LockException.LOCK_FAILED, strerror, handle=handle)
LockException(strerror, handle) ==
    [type |-> "LockException", winerror |-> 0, strerror |-> strerror,
     handle |-> handle]

\* a primitive as lock() or unlock() called it, with the error it raised
Primitive(name, mode, err) == [name |-> name, mode |-> mode, err |-> err]

(* ----------------------------- FileLock ------------------------------- *)
\* lock(), shared branch: the mode handed to LockFileEx as dwFlags
shared_mode(flags) ==
    IF version_major = 2
    THEN IF HasBit(flags, NB) THEN LOCKFILE_FAIL_IMMEDIATELY ELSE 0
    ELSE IF HasBit(flags, NB) THEN LK_NBRLCK ELSE LK_RLCK

\* lock(), exclusive branch: the mode handed to msvcrt.locking
exclusive_mode(flags) == IF HasBit(flags, NB) THEN LK_NBLCK ELSE LK_LOCK

\* `if save_position: handle.seek(0)`: where the cursor is for the primitive
seek_start(save_position) == IF save_position # 0 THEN 0 ELSE save_position

restore_skipped(save_position, cur) == cur

\* `finally: if save_position: handle.seek(save_position)`
restore(save_position, cur) == IF save_position # 0 THEN save_position ELSE cur

lock_shared_swallowing(tbl, h, cur, flags, fault) ==
    LET mode == shared_mode(flags)
        o == LockFileEx(tbl, h, mode, ex_bytes_low, ex_bytes_high, fault)
        exc_value == IF o.wait \/ o.winerror = 0 THEN NoError
                     ELSE pywin_error(o.winerror)
    IN  [table |-> o.table,
         pos |-> cur,
         prims |-> <<Primitive("LockFileEx", mode, exc_value)>>,
         exc |-> IF exc_value = NoError \/ exc_value.winerror = ERROR_LOCK_VIOLATION
                 THEN NoError
                 ELSE exc_value,
         res |-> IF o.wait THEN "pending"
                 ELSE IF o.winerror \in {0, ERROR_LOCK_VIOLATION} THEN "ok"
                 ELSE "pywin_error"]

lock_shared_wrapping_all(tbl, h, cur, flags, fault) ==
    LET mode == shared_mode(flags)
        o == LockFileEx(tbl, h, mode, ex_bytes_low, ex_bytes_high, fault)
        exc_value == IF o.wait \/ o.winerror = 0 THEN NoError
                     ELSE pywin_error(o.winerror)
    IN  [table |-> o.table,
         pos |-> cur,
         prims |-> <<Primitive("LockFileEx", mode, exc_value)>>,
         exc |-> IF exc_value = NoError THEN NoError
                 ELSE LockException(exc_value.strerror, h),
         res |-> IF o.wait THEN "pending"
                 ELSE IF o.winerror = 0 THEN "ok"
                 ELSE "LockFailed"]

\* lock(), shared branch, up to the return of LockFileEx
lock_shared(tbl, h, cur, flags, fault) ==
    LET mode == shared_mode(flags)
        o == LockFileEx(tbl, h, mode, ex_bytes_low, ex_bytes_high, fault)
        exc_value == IF o.wait \/ o.winerror = 0 THEN NoError
                     ELSE pywin_error(o.winerror)
    IN  [table |-> o.table,
         pos |-> cur,
         prims |-> <<Primitive("LockFileEx", mode, exc_value)>>,
         exc |-> IF exc_value = NoError THEN NoError
                 ELSE IF exc_value.winerror = ERROR_LOCK_VIOLATION
                 THEN LockException(exc_value.strerror, h)
                 ELSE exc_value,
         res |-> IF o.wait THEN "pending"
                 ELSE IF o.winerror = 0 THEN "ok"
                 ELSE IF o.winerror = ERROR_LOCK_VIOLATION THEN "LockFailed"
                 ELSE "pywin_error"]

\* lock(), exclusive branch, around one attempt of msvcrt.locking
lock_exclusive(tbl, h, save_position, flags, last, fault) ==
    LET at == seek_start(save_position)
        mode == exclusive_mode(flags)
        o == locking(tbl, h, at, mode, lock_length, last, fault)
        exc_value == IF o.strerror \in {"", "retry"} THEN NoError
                     ELSE IOError(o.strerror)
    IN  [table |-> o.table,
         pos |-> IF o.strerror = "retry" THEN at ELSE restore(save_position, at),
         prims |-> <<Primitive("locking", mode, exc_value)>>,
         exc |-> IF exc_value = NoError THEN NoError
                 ELSE LockException(exc_value.strerror, h),
         res |-> IF o.strerror = "retry" THEN "pending"
                 ELSE IF o.strerror = "" THEN "ok"
                 ELSE "LockFailed"]

lock_testing_EX(tbl, h, cur, flags, fault) ==
    IF HasBit(flags, EX)
    THEN lock_exclusive(tbl, h, cur, flags, FALSE, fault)
    ELSE lock_shared(tbl, h, cur, flags, fault)

\* FileLock.lock(handle, flags), up to its return or its first wait
lock(tbl, h, cur, flags, fault) ==
    IF HasBit(flags, SH)
    THEN lock_shared(tbl, h, cur, flags, fault)
    ELSE lock_exclusive(tbl, h, cur, flags, FALSE, fault)

\* unlock(): what the fallback's winerror becomes (0: UnlockFileEx succeeded)
unlock_fallback_ignoring_nothing(winerror) ==
    IF winerror = 0 THEN "ok" ELSE "LockFailed"

unlock_fallback_ignoring_all(winerror) == "ok"

unlock_fallback(winerror) ==
    IF winerror = 0 THEN "ok"
    ELSE IF winerror = ERROR_NOT_LOCKED THEN "ok"
    ELSE "LockFailed"

\* FileLock.unlock(handle); `fallback` tells whether UnlockFileEx was called
unlock(tbl, h, cur, fault1, fault2) ==
    LET save_position == cur
        at == seek_start(save_position)
        o1 == locking(tbl, h, at, UN, lock_length, TRUE, fault1)
        o2 == UnlockFileEx(o1.table, h, ex_bytes_low, ex_bytes_high, fault2)
        fallback == o1.strerror = "Permission denied"
        exc1 == IF o1.strerror = "" THEN NoError ELSE IOError(o1.strerror)
        exc2 == IF o2.winerror = 0 THEN NoError ELSE pywin_error(o2.winerror)
        res == IF o1.strerror = "" THEN "ok"
               ELSE IF fallback THEN unlock_fallback(o2.winerror)
               ELSE "LockFailed"
    IN  [pos |-> restore(save_position, at),
         fallback |-> fallback,
         table |-> IF fallback THEN o2.table ELSE o1.table,
         prims |-> IF fallback
                   THEN <<Primitive("locking", UN, exc1),
                          Primitive("UnlockFileEx", 0, exc2)>>
                   ELSE <<Primitive("locking", UN, exc1)>>,
         exc |-> IF res = "ok" THEN NoError
                 ELSE IF fallback THEN LockException(exc2.strerror, h)
                 ELSE LockException(exc1.strerror, h),
         res |-> res]

(* ------------------------------ actions ------------------------------- *)
NoCall == [op |-> "none", flags |-> 0, save_position |-> 0, res |-> "none",
           fault |-> FALSE, changed |-> FALSE, quiet |-> TRUE]

\* bookkeeping for the other handles' records when handle h makes a step:
\* a refused lock(g, EX|NB) stops being `quiet` once another handle is
\* granted a lock
Others(h, rec, gained) ==
    IF ~gained THEN [call EXCEPT ![h] = rec]
    ELSE [g \in Handles |->
            IF g = h THEN rec
            ELSE IF call[g].res = "LockFailed" /\ call[g].flags = EX + NB
                    /\ ~call[g].fault
                 THEN [call[g] EXCEPT !.quiet = FALSE]
                 ELSE call[g]]

Gained(old, new) == BagCardinality(new) > BagCardinality(old)

\* the caller of h moves the cursor between two calls
Seek(h, p) ==
    /\ pc[h] # "pending"
    /\ p # pos[h]
    /\ pos' = [pos EXCEPT ![h] = p]
    /\ pc' = [pc EXCEPT ![h] = "idle"]
    /\ call' = [call EXCEPT ![h] = NoCall]
    /\ UNCHANGED <<table, singletonVars, resolverVars>>

\* the caller of h calls FileLock.lock(h, flags)
Lock(h, flags, fault) ==
    /\ pc[h] # "pending"
    /\ CountHeld(table, h) < MaxHeld
    /\ LET o == lock(table, h, pos[h], flags, fault)
       IN  /\ table' = o.table
           /\ pos' = [pos EXCEPT ![h] = o.pos]
           /\ pc' = [pc EXCEPT ![h] = IF o.res = "pending" THEN "pending" ELSE "returned"]
           /\ call' = Others(h, [op |-> "lock", flags |-> flags,
                                  save_position |-> pos[h], res |-> o.res,
                                  fault |-> fault # 0,
                                  changed |-> o.table # table, quiet |-> TRUE],
                              Gained(table, o.table))
    /\ UNCHANGED <<singletonVars, resolverVars>>

\* a waiting LockFileEx of h is granted its lock and lock() returns
LockFileExGranted(h) ==
    /\ pc[h] = "pending"
    /\ HasBit(call[h].flags, SH)
    /\ LET o == lock_shared(table, h, pos[h], call[h].flags, 0)
       IN  /\ o.res = "ok"
           /\ table' = o.table
           /\ pos' = [pos EXCEPT ![h] = o.pos]
           /\ pc' = [pc EXCEPT ![h] = "returned"]
           /\ call' = Others(h, [call[h] EXCEPT !.res = o.res,
                                                !.changed = o.table # table],
                              Gained(table, o.table))
    /\ UNCHANGED <<singletonVars, resolverVars>>

\* msvcrt.locking of h wakes up and makes another attempt
LockingRetry(h, last) ==
    /\ pc[h] = "pending"
    /\ ~HasBit(call[h].flags, SH)
    /\ LET o == lock_exclusive(table, h, call[h].save_position, call[h].flags,
                               last, 0)
       IN  /\ o.res # "pending"
           /\ table' = o.table
           /\ pos' = [pos EXCEPT ![h] = o.pos]
           /\ pc' = [pc EXCEPT ![h] = "returned"]
           /\ call' = Others(h, [call[h] EXCEPT !.res = o.res,
                                                !.changed = o.table # table],
                              Gained(table, o.table))
    /\ UNCHANGED <<singletonVars, resolverVars>>

\* the caller of h calls FileLock.unlock(h)
Unlock(h, fault1, fault2) ==
    /\ pc[h] # "pending"
    /\ LET o == unlock(table, h, pos[h], fault1, fault2)
       IN  /\ fault2 # 0 => o.fallback
           /\ table' = o.table
           /\ pos' = [pos EXCEPT ![h] = o.pos]
           /\ pc' = [pc EXCEPT ![h] = "returned"]
           /\ call' = [call EXCEPT ![h] =
                         [op |-> "unlock", flags |-> 0, save_position |-> pos[h],
                          res |-> o.res,
                          fault |-> fault1 # 0 \/ fault2 # 0,
                          changed |-> o.table # table, quiet |-> TRUE]]
    /\ UNCHANGED <<singletonVars, resolverVars>>

LockInit ==
    /\ table = EmptyBag
    /\ pos = [h \in Handles |-> 0]
    /\ pc = [h \in Handles |-> "idle"]
    /\ call = [h \in Handles |-> NoCall]

(* ----------------------------- singletons ----------------------------- *)
None == [cls |-> "None", id |-> 0, args |-> 0]

\* classes restricted by the `singleton` decorator
Decorated == {"X", "Y"}

\* classes whose metaclass is MetaSingleton; Q is a subclass of P
MetaClasses == {"P", "Q"}

\* the classes attribute lookup on c goes through (c, then its bases)
Mro(c) == IF c = "Q" THEN <<"Q", "P">> ELSE <<c>>

\* INSTANCES as the module is loaded: an empty mapping
EmptyInstances == [c \in Decorated |-> None]

\* `cls(*args, **kwargs)`: a new object, told apart by its serial number
NewInstance(c, args) ==
    [cls |-> c, id |-> Cardinality({i \in created : i.cls = c}) + 1, args |-> args]

Idle == [pc |-> "idle", cls |-> "None", args |-> 0, instance |-> None, ret |-> None]

\* singleton.wrapper: `cls not in INSTANCES`
wrapper_always(c) == TRUE

wrapper_missing(c) == INSTANCES[c] = None

\* MetaSingleton.__call__: `hasattr(cls, "_instance")`
hasattr_instance(c) == \E i \in 1..Len(Mro(c)) : attr[Mro(c)[i]] # None

\* `cls._instance` read: the first class of the lookup order that has it
getattr_instance(c) ==
    LET m == Mro(c)
        i == CHOOSE k \in 1..Len(m) :
                 attr[m[k]] # None /\ \A j \in 1..(k - 1) : attr[m[j]] = None
    IN  attr[m[i]]

\* a thread calls wrapper(*args): the membership test
WrapperCall(t, c, args) ==
    /\ thr[t].pc \in {"idle", "done"}
    /\ c \in Decorated
    /\ thr' = [thr EXCEPT ![t] =
                 [Idle EXCEPT !.pc = IF wrapper_missing(c) THEN "construct" ELSE "return",
                              !.cls = c, !.args = args]]
    /\ UNCHANGED <<lockVars, resolverVars, INSTANCES, attr, created>>

\* `instance = cls(*args, **kwargs)`
WrapperConstruct(t) ==
    /\ thr[t].pc = "construct" /\ thr[t].cls \in Decorated
    /\ LET instance == NewInstance(thr[t].cls, thr[t].args)
       IN  /\ created' = created \cup {instance}
           /\ thr' = [thr EXCEPT ![t].pc = "store", ![t].instance = instance]
    /\ UNCHANGED <<lockVars, resolverVars, INSTANCES, attr>>

\* `INSTANCES[cls] = instance`
WrapperStore(t) ==
    /\ thr[t].pc = "store" /\ thr[t].cls \in Decorated
    /\ INSTANCES' = [INSTANCES EXCEPT ![thr[t].cls] = thr[t].instance]
    /\ thr' = [thr EXCEPT ![t].pc = "return"]
    /\ UNCHANGED <<lockVars, resolverVars, attr, created>>

\* `return INSTANCES[cls]`
WrapperReturn(t) ==
    /\ thr[t].pc = "return" /\ thr[t].cls \in Decorated
    /\ thr' = [thr EXCEPT ![t].pc = "done", ![t].instance = None,
                           ![t].ret = INSTANCES[thr[t].cls]]
    /\ UNCHANGED <<lockVars, resolverVars, INSTANCES, attr, created>>

\* a thread calls cls(*args) of a MetaSingleton class: the hasattr test
MetaCall(t, c, args) ==
    /\ thr[t].pc \in {"idle", "done"}
    /\ c \in MetaClasses
    /\ thr' = [thr EXCEPT ![t] =
                 [Idle EXCEPT !.pc = IF hasattr_instance(c) THEN "return" ELSE "construct",
                              !.cls = c, !.args = args]]
    /\ UNCHANGED <<lockVars, resolverVars, INSTANCES, attr, created>>

\* `super(MetaSingleton, cls).__call__(*args, **kwargs)`
MetaConstruct(t) ==
    /\ thr[t].pc = "construct" /\ thr[t].cls \in MetaClasses
    /\ LET instance == NewInstance(thr[t].cls, thr[t].args)
       IN  /\ created' = created \cup {instance}
           /\ thr' = [thr EXCEPT ![t].pc = "store", ![t].instance = instance]
    /\ UNCHANGED <<lockVars, resolverVars, INSTANCES, attr>>

\* `cls._instance = ...`
MetaStore(t) ==
    /\ thr[t].pc = "store" /\ thr[t].cls \in MetaClasses
    /\ attr' = [attr EXCEPT ![thr[t].cls] = thr[t].instance]
    /\ thr' = [thr EXCEPT ![t].pc = "return"]
    /\ UNCHANGED <<lockVars, resolverVars, INSTANCES, created>>

\* `return cls._instance`
MetaReturn(t) ==
    /\ thr[t].pc = "return" /\ thr[t].cls \in MetaClasses
    /\ thr' = [thr EXCEPT ![t].pc = "done", ![t].instance = None,
                           ![t].ret = getattr_instance(thr[t].cls)]
    /\ UNCHANGED <<lockVars, resolverVars, INSTANCES, attr, created>>

\* `class FileLock(object)`: the statement names no decorator and no
\* metaclass, so FileLock() is type.__call__: a new object, then __init__
FileLockNew(t) ==
    /\ thr[t].pc \in {"idle", "done"}
    /\ Cardinality({i \in created : i.cls = "FileLock"}) < MaxEngines
    /\ LET instance == NewInstance("FileLock", 0)
       IN  /\ created' = created \cup {instance}
           /\ thr' = [thr EXCEPT ![t] = [Idle EXCEPT !.pc = "init", !.cls = "FileLock",
                                                      !.instance = instance]]
    /\ UNCHANGED <<lockVars, resolverVars, INSTANCES, attr>>

\* FileLock.__init__: `self.__overlapped = OVERLAPPED()`
FileLockOverlapped(t) ==
    /\ thr[t].pc = "init" /\ thr[t].cls = "FileLock"
    /\ thr' = [thr EXCEPT ![t].pc = "length"]
    /\ UNCHANGED <<lockVars, resolverVars, INSTANCES, attr, created>>

\* FileLock.__init__: `self.lock_length = ...`, then FileLock() returns the
\* new object
FileLockLength(t) ==
    /\ thr[t].pc = "length" /\ thr[t].cls = "FileLock"
    /\ thr' = [thr EXCEPT ![t].pc = "done", ![t].instance = None,
                           ![t].ret = thr[t].instance]
    /\ UNCHANGED <<lockVars, resolverVars, INSTANCES, attr, created>>

SingletonInit ==
    /\ INSTANCES = EmptyInstances
    /\ attr = [c \in MetaClasses |-> None]
    /\ created = {}
    /\ thr = [t \in Threads |-> Idle]

(* --------------------------- default flags ---------------------------- *)
\* the characters of a mode string: the four access modes, the modifiers
\* that _get_mode strips, and "U" (universal newlines) as one that it keeps
ModeChars == {"r", "w", "a", "x", "t", "b", "+", "U"}

RECURSIVE Strings(_)
Strings(n) ==
    IF n = 0 THEN {<<>>}
    ELSE LET shorter == Strings(n - 1)
         IN  shorter \cup {Append(m, c) : m \in {x \in shorter : Len(x) = n - 1},
                                           c \in ModeChars}

Modes == Strings(MaxModeLen)

\* str.strip(chars): characters of `chars` removed from both ends only
RECURSIVE lstrip(_, _)
lstrip(str, chars) ==
    IF str # <<>> /\ Head(str) \in chars THEN lstrip(Tail(str), chars) ELSE str

RECURSIVE rstrip(_, _)
rstrip(str, chars) ==
    IF str # <<>> /\ str[Len(str)] \in chars
    THEN rstrip(SubSeq(str, 1, Len(str) - 1), chars)
    ELSE str

strip(str, chars) == rstrip(lstrip(str, chars), chars)

\* FileLock._flags
_flags ==
    (<<"w">> :> EX) @@ (<<"a">> :> EX) @@ (<<"x">> :> EX) @@ (<<"r">> :> SH)

\* FileLock._get_mode(handle): `mode.strip("tb+")`
_get_mode(m) == strip(m, {"t", "b", "+"})

Unset == [ret |-> "unset", flags |-> 0]

\* FileLock.get_flags(handle): `self._flags.get(mode)`, None for a missing key
get_flags(m) ==
    LET key == _get_mode(m)
    IN  IF key \in DOMAIN _flags
        THEN [ret |-> "flags", flags |-> _flags[key]]
        ELSE [ret |-> "None", flags |-> 0]

\* the caller opens a handle with mode m
Open(m) ==
    /\ m # handle_mode
    /\ handle_mode' = m
    /\ got' = Unset
    /\ UNCHANGED <<lockVars, singletonVars>>

\* the caller asks for the default flags of its handle
GetFlags ==
    /\ got = Unset
    /\ got' = get_flags(handle_mode)
    /\ UNCHANGED <<lockVars, singletonVars, handle_mode>>

\* a handle opened with open()'s default mode
ResolverInit ==
    /\ handle_mode = <<"r">>
    /\ got = Unset

Init ==
    /\ LockInit
    /\ SingletonInit
    /\ ResolverInit

Next ==
    \/ \E h \in Handles, p \in Positions : Seek(h, p)
    \/ \E h \in Handles, flags \in FlagValues, fault \in Faults : Lock(h, flags, fault)
    \/ \E h \in Handles : LockFileExGranted(h)
    \/ \E h \in Handles, last \in BOOLEAN : LockingRetry(h, last)
    \/ \E h \in Handles, fault1 \in Faults, fault2 \in Faults : Unlock(h, fault1, fault2)

\* the file-locking engine: callers of independent handles, interleaved
Spec == Init /\ [][Next]_vars

\* the next statement of the call thread t is inside
Statement(t) ==
    \/ WrapperConstruct(t)
    \/ WrapperStore(t)
    \/ WrapperReturn(t)
    \/ MetaConstruct(t)
    \/ MetaStore(t)
    \/ MetaReturn(t)

\* no other thread is inside a call
Sequential(t) == \A u \in Threads \ {t} : thr[u].pc \in {"idle", "done"}

\* constructions made one after the other, by any thread
SeqNext ==
    \/ \E t \in Threads, c \in Decorated, args \in Args :
           Sequential(t) /\ WrapperCall(t, c, args)
    \/ \E t \in Threads, c \in MetaClasses, args \in Args :
           Sequential(t) /\ MetaCall(t, c, args)
    \/ \E t \in Threads : Statement(t)

SeqSpec == Init /\ [][SeqNext]_vars

\* the classes the threads race to construct: one of each mechanism
RaceDecorated == {"X"}
RaceMetaClasses == {"P"}

\* constructions by several threads, interleaved at every statement
RaceNext ==
    \/ \E t \in Threads, c \in RaceDecorated, args \in Args : WrapperCall(t, c, args)
    \/ \E t \in Threads, c \in RaceMetaClasses, args \in Args : MetaCall(t, c, args)
    \/ \E t \in Threads : Statement(t)

RaceSpec == Init /\ [][RaceNext]_vars

\* constructions of the lock engine by the threads of one process
EngineNext ==
    \/ \E t \in Threads : FileLockNew(t)
    \/ \E t \in Threads : FileLockOverlapped(t)
    \/ \E t \in Threads : FileLockLength(t)

EngineSpec == Init /\ [][EngineNext]_vars

\* handles of every mode, each asked for its default flags
ModeNext ==
    \/ \E m \in Modes : Open(m)
    \/ GetFlags

ModeSpec == Init /\ [][ModeNext]_vars

(* ----------------------- claims about FileLock ------------------------ *)
\* h owns a lock taken by the exclusive branch of lock()
HoldsExclusive(h) == \E e \in HeldBy(table, h) : e.via = "locking"

\* h owns a lock taken by the shared branch of lock()
HoldsShared(h) == \E e \in HeldBy(table, h) : e.via = "LockFileEx"

\* the step is one of handle h: its record of the last call changes (the
\* `quiet` mark aside, which other handles' steps change) or the number of
\* locks it owns does; a step that is neither changes nothing
Acts(h) ==
    \/ [call'[h] EXCEPT !.quiet = call[h].quiet] # call[h]
    \/ (table' # table /\ CountHeld(table', h) # CountHeld(table, h))

\* this step is the caller of h entering lock()
LockCall(h) == pc[h] # "pending" /\ call'[h].op = "lock" /\ Acts(h)

\* this step is the caller of h calling unlock()
UnlockCall(h) == pc[h] # "pending" /\ call'[h].op = "unlock" /\ Acts(h)

\* C1: while handle a holds a lock taken by an EXCLUSIVE request, every
\* lock(b, EX|NB) and lock(b, SH|NB) on another handle b returns at once with
\* LockFailed (the claim as stated; the code violates it for SH|NB).
C1_FailFast ==
    [][\A a, b \in Handles :
          (/\ a # b
           /\ HoldsExclusive(a)
           /\ LockCall(b)
           /\ call'[b].flags \in {EX + NB, SH + NB}
           /\ ~call'[b].fault)
          => (pc'[b] = "returned" /\ call'[b].res = "LockFailed")]_vars

\* C2: when a handle holds a lock obtained by an EXCLUSIVE request (a lock of
\* the exclusive branch, or its last call was such a lock() and succeeded),
\* no other handle holds any lock on the file.
C2_ExclusiveInvariant ==
    \A a \in Handles :
        (\/ HoldsExclusive(a)
         \/ (/\ pc[a] = "returned" /\ call[a].op = "lock"
             /\ ~HasBit(call[a].flags, SH) /\ call[a].res = "ok"))
        => \A b \in Handles \ {a} : HeldBy(table, b) = {}

\* C2 witness: a holds an exclusive lock and b's lock attempt was refused
C2_Witness ==
    \E a, b \in Handles :
        /\ a # b /\ HoldsExclusive(a)
        /\ pc[b] = "returned" /\ call[b].op = "lock" /\ ~call[b].fault
        /\ call[b].res = "LockFailed"

\* C3: if lock(b, EX|NB) failed while a held an exclusive lock and no handle
\* has been granted a lock since, then right after unlock(a) has returned
\* successfully the same call on b succeeds
\* (the claim as stated; the code violates it when a also owns a shared lock).
C3_ReleaseThenAcquire ==
    [][\A a, b \in Handles :
          (/\ a # b
           /\ HoldsExclusive(a)
           /\ pc[b] = "returned" /\ call[b].op = "lock"
           /\ call[b].flags = EX + NB /\ call[b].res = "LockFailed"
           /\ ~call[b].fault /\ call[b].quiet
           /\ UnlockCall(a) /\ call'[a].res = "ok")
          => lock(table', b, pos'[b], EX + NB, 0).res = "ok"]_vars

\* C4: when handle a holds a lock obtained with a SHARED request, a SHARED
\* request on another handle b succeeds without failing and without waiting
\* (the claim as stated; the code violates it).
C4_SharedCompatible ==
    [][\A a, b \in Handles :
          (/\ a # b
           /\ HoldsShared(a) /\ ~HoldsExclusive(a)
           /\ HeldBy(table, b) = {}
           /\ LockCall(b)
           /\ call'[b].flags \in {SH, SH + NB}
           /\ ~call'[b].fault)
          => (pc'[b] = "returned" /\ call'[b].res = "ok")]_vars

\* C5: when lock() or unlock() returns or raises, the cursor of the handle
\* is where it was when the call was made.
C5_CursorInvariance ==
    \A h \in Handles : pc[h] = "returned" => pos[h] = call[h].save_position

\* C5 witness: calls that seek to offset 0 internally have returned on the
\* success path and on the failure path
C5_Witness ==
    \E a, b \in Handles :
        /\ pc[a] = "returned" /\ call[a].op = "unlock" /\ call[a].res = "ok"
        /\ call[a].changed /\ call[a].save_position # 0
        /\ pc[b] = "returned" /\ call[b].op = "lock" /\ ~HasBit(call[b].flags, SH)
        /\ call[b].res = "LockFailed" /\ call[b].save_position # 0

\* C6: unlock() on a handle that holds no lock (in particular a second
\* unlock() in succession) returns without error and leaves the lock table
\* unchanged.
C6_IdempotentUnlock ==
    [][\A h \in Handles :
          (UnlockCall(h) /\ HeldBy(table, h) = {} /\ ~call'[h].fault)
          => (call'[h].res = "ok" /\ table' = table)]_vars

\* C6 witness: an unlock() that found nothing to release has returned
C6_Witness ==
    \E h \in Handles :
        /\ pc[h] = "returned" /\ call[h].op = "unlock" /\ ~call[h].fault
        /\ ~call[h].changed /\ call[h].res = "ok" /\ HeldBy(table, h) = {}

\* C7: once unlock(h) has returned without raising, h holds no lock on the
\* file, taken by either primitive (the claim as stated; the code releases
\* one lock only).
C7_UnlockReleasesAll ==
    \A h \in Handles :
        (pc[h] = "returned" /\ call[h].op = "unlock" /\ call[h].res = "ok")
        => HeldBy(table, h) = {}

\* C8: a lock() call whose flags contain NON_BLOCKING never waits (the claim
\* as stated; the code's shared branch waits).
C8_NonBlockingNeverWaits ==
    \A h \in Handles : pc[h] = "pending" => ~HasBit(call[h].flags, NB)

(* ----------------------- claims about the singletons ------------------- *)
Classes == Decorated \cup MetaClasses

\* the entry kept for class c itself
Stored(c) == IF c \in Decorated THEN INSTANCES[c] ELSE attr[c]

InstancesOf(c) == {i \in created : i.cls = c}

\* c has no entry of its own but finds the entry of a base class
Inherits(c) == c \in MetaClasses /\ attr[c] = None /\ hasattr_instance(c)

Returns(t) == thr[t].pc = "return" /\ thr'[t].pc = "done"

\* C9: when several threads race through the first construction of one
\* singleton-restricted class, at most one instance of the class is ever
\* created and every call that has returned got the same instance.
C9_RaceSafe ==
    \A c \in Classes :
        /\ Cardinality(InstancesOf(c)) <= 1
        /\ \A t, u \in Threads :
               (thr[t].pc = "done" /\ thr[u].pc = "done"
                   /\ thr[t].cls = c /\ thr[u].cls = c)
                   => thr[t].ret = thr[u].ret

C19_KeyedByType ==
    /\ \A t \in Threads :
           (thr[t].pc = "done" /\ thr[t].cls \in Classes)
               => thr[t].ret.cls = thr[t].cls
    /\ \A t, u \in Threads :
           (/\ thr[t].pc = "done" /\ thr[u].pc = "done"
            /\ thr[t].cls \in Classes /\ thr[u].cls \in Classes
            /\ thr[t].cls # thr[u].cls)
               => thr[t].ret # thr[u].ret

\* C11: every construction of the lock engine is restricted to one instance:
\* at most one FileLock object is ever created in the process and all
\* constructions return the same object (the claim as stated; the class is
\* not restricted in the code).
C11_OneEngine ==
    /\ Cardinality(InstancesOf("FileLock")) <= 1
    /\ \A t, u \in Threads :
           (thr[t].pc = "done" /\ thr[u].pc = "done"
               /\ thr[t].cls = "FileLock" /\ thr[u].cls = "FileLock")
               => thr[t].ret = thr[u].ret

\* this step is lock(h, ...) returning or raising, at once or after a wait
LockReturns(h) ==
    /\ pc'[h] = "returned"
    /\ (pc[h] = "pending" \/ LockCall(h))

LockOutcomes(h) ==
    LET all == IF pc[h] # "pending"
               THEN {lock(table, h, pos[h], call'[h].flags, fault) :
                        fault \in {f \in Faults : (f # 0) = call'[h].fault}}
               ELSE IF call'[h].fault # call[h].fault
               THEN {}
               ELSE IF HasBit(call[h].flags, SH)
               THEN {lock_shared(table, h, pos[h], call[h].flags, 0)}
               ELSE {lock_exclusive(table, h, call[h].save_position,
                                    call[h].flags, last, 0) : last \in BOOLEAN}
    IN  {o \in all : /\ o.res = call'[h].res
                     /\ o.table = table'
                     /\ o.pos = pos'[h]}

\* C15: when lock() ends, on the shared branch a lock-violation error of
\* LockFileEx is raised as LockException carrying the handle and any other
\* error of LockFileEx is raised as it is; on the exclusive branch every
\* error of locking() is raised as LockException carrying the error's
\* message and the handle; without an error nothing is raised.
C15_ErrorNormalization ==
    [][\A h \in Handles :
          LockReturns(h) =>
              LET outcomes == LockOutcomes(h)
              IN
              /\ outcomes # {}
              /\ \A o \in outcomes :
                     LET p == o.prims[1]
                     IN  /\ p.err = NoError => o.exc = NoError
                         /\ (p.name = "LockFileEx" /\ p.err # NoError) =>
                                IF p.err.winerror = ERROR_LOCK_VIOLATION
                                THEN o.exc.type = "LockException" /\ o.exc.handle = h
                                ELSE o.exc = p.err
                         /\ (p.name = "locking" /\ p.err # NoError) =>
                                o.exc = LockException(p.err.strerror, h)]_vars

\* lock() has propagated an unrelated error of LockFileEx on one handle and
\* has wrapped an unrelated error of locking() on another
C15_Witness ==
    \E a, b \in Handles :
        /\ a # b
        /\ pc[a] = "returned" /\ call[a].op = "lock" /\ call[a].res = "pywin_error"
        /\ pc[b] = "returned" /\ call[b].op = "lock" /\ call[b].res = "LockFailed"
        /\ ~HasBit(call[b].flags, SH) /\ call[b].fault

\* what unlock() computed in this step of h: the results of FileLock.unlock
\* that agree with the step
UnlockOutcomes(h) ==
    LET faults == {f \in Faults \X Faults :
                      (f[1] # 0 \/ f[2] # 0) = call'[h].fault}
        all == {[o |-> unlock(table, h, pos[h], f[1], f[2]),
                 called |-> f[2] # 0] : f \in faults}
    IN  {x.o : x \in {y \in all : /\ (y.called => y.o.fallback)
                                   /\ y.o.res = call'[h].res
                                   /\ y.o.table = table'
                                   /\ y.o.pos = pos'[h]}}

\* C16: unlock() calls locking(LK_UNLCK) first; it calls UnlockFileEx exactly
\* when locking() raised 'Permission denied'; when UnlockFileEx succeeds or
\* raises ERROR_NOT_LOCKED, unlock() returns normally; any other error of
\* UnlockFileEx is raised as LockException; any other error of locking() is
\* raised as LockException and UnlockFileEx is not called.
C16_TwoStepUnlock ==
    [][\A h \in Handles :
          UnlockCall(h) =>
              LET outcomes == UnlockOutcomes(h)
              IN
              /\ outcomes # {}
              /\ \A o \in outcomes :
                     LET first == o.prims[1]
                     IN  /\ first.name = "locking" /\ first.mode = LK_UNLCK
                         /\ Len(o.prims) \in {1, 2}
                         /\ Len(o.prims) = 2 <=> first.err.strerror = "Permission denied"
                         /\ Len(o.prims) = 1 =>
                                o.exc = IF first.err = NoError THEN NoError
                                        ELSE LockException(first.err.strerror, h)
                         /\ Len(o.prims) = 2 =>
                                /\ o.prims[2].name = "UnlockFileEx"
                                /\ o.exc = IF o.prims[2].err = NoError THEN NoError
                                           ELSE IF o.prims[2].err.winerror = ERROR_NOT_LOCKED
                                           THEN NoError
                                           ELSE LockException(o.prims[2].err.strerror, h)
                         /\ call'[h].res = IF o.exc = NoError THEN "ok" ELSE "LockFailed"]_vars

\* an unlock() has raised LockException for an error that is not about a
\* missing lock, while another handle's unlock() found nothing and returned
C16_Witness ==
    \E a, b \in Handles :
        /\ a # b
        /\ pc[a] = "returned" /\ call[a].op = "unlock"
        /\ call[a].fault /\ call[a].res = "LockFailed"
        /\ pc[b] = "returned" /\ call[b].op = "unlock"
        /\ ~call[b].fault /\ call[b].res = "ok" /\ ~call[b].changed

\* C17: a lock() call without NON_BLOCKING, shared or exclusive, made while
\* another handle holds a lock taken by an EXCLUSIVE request, does not end
\* with LockFailed: it waits until the lock is free (the claim as stated; the
\* code fails such a SHARED request at once and gives up an EXCLUSIVE one
\* after locking()'s retries).
C17_BlockingWaits ==
    [][\A a, b \in Handles :
          (/\ a # b
           /\ HoldsExclusive(a)
           /\ LockReturns(b)
           /\ ~HasBit(call'[b].flags, NB)
           /\ ~call'[b].fault)
          => call'[b].res = "ok"]_vars

\* C18: lock(h, flags) calls LockFileEx exactly when the SH bit of flags is
\* set and msvcrt.locking otherwise, whatever the other bits are; when the
\* exclusive branch succeeds it has added one exclusive lock of lock_length
\* bytes from offset 0; lock(h, 0), that is lock(h, LOCK.UN), calls locking()
\* with LK_LOCK; no lock() step takes a lock away.
C18_BranchOnSharedBit ==
    [][\A h \in Handles :
          (LockCall(h) \/ (pc[h] = "pending" /\ LockReturns(h))) =>
              LET outcomes == LockOutcomes(h)
              IN
              /\ outcomes # {}
              /\ table \sqsubseteq table'
              /\ \A o \in outcomes :
                     LET flags == call'[h].flags
                         p == o.prims[1]
                     IN  /\ HasBit(flags, SH) <=> p.name = "LockFileEx"
                         /\ ~HasBit(flags, SH) <=> p.name = "locking"
                         /\ (flags = UN) => (p.name = "locking" /\ p.mode = LK_LOCK)
                         /\ (~HasBit(flags, SH) /\ o.res = "ok") =>
                                table' = table (+) SetToBag({Entry(h, Region(0, lock_length, 0),
                                                                   TRUE, "locking")})]_vars

\* lock(a, LOCK.UN) has returned normally and a holds an exclusive lock; a
\* request of b that had the SH bit set went to LockFileEx and was refused
C18_Witness ==
    \E a, b \in Handles :
        /\ a # b
        /\ pc[a] = "returned" /\ call[a].op = "lock" /\ call[a].flags = UN
        /\ call[a].res = "ok" /\ call[a].changed /\ HoldsExclusive(a)
        /\ pc[b] = "returned" /\ call[b].op = "lock"
        /\ HasBit(call[b].flags, SH) /\ call[b].res = "LockFailed"
        /\ ~call[b].fault

\* C13: a lock() whose flags contain both EXCLUSIVE and SHARED follows the
\* exclusive branch: once it has returned successfully the handle holds the
\* lock of the whole-file primitive and no other handle holds any lock (the
\* claim as stated; the code follows the shared branch).
C13_ExclusiveWins ==
    \A a \in Handles :
        (/\ pc[a] = "returned" /\ call[a].op = "lock" /\ call[a].res = "ok"
         /\ HasBit(call[a].flags, EX) /\ HasBit(call[a].flags, SH))
        => /\ HoldsExclusive(a)
           /\ \A b \in Handles \ {a} : HeldBy(table, b) = {}

(* --------------------- claims about get_flags ------------------------- *)
\* the mode with its modifiers t, b and + left out
AccessMode(m) == SelectSeq(m, LAMBDA c : c \notin {"t", "b", "+"})

\* C12: get_flags gives SHARED for mode "r", EXCLUSIVE for "w", "a" and "x"
\* (the modifiers t, b, + aside), and fails with UnsupportedModeError for
\* every other mode string instead of returning a value (the claim as stated;
\* the code returns None there).
C12_DefaultFlags ==
    got # Unset =>
        LET am == AccessMode(handle_mode)
        IN  /\ am = <<"r">> => got = [ret |-> "flags", flags |-> SH]
            /\ am \in {<<"w">>, <<"a">>, <<"x">>} => got = [ret |-> "flags", flags |-> EX]
            /\ am \notin {<<"r">>, <<"w">>, <<"a">>, <<"x">>}
                   => got.ret = "UnsupportedModeError"

====
